---- MODULE Spec2Model ----
(***************************************************************************)
(* Model of src/Main.cpp: the Win32/D3D11 frame loop of BRDFs.  The state  *)
(* is the position of Entry(), the resize flag, the thread's message       *)
(* queue, the swap chain, the Framebuffer, the device context's bindings,  *)
(* the two dynamic constant buffers and the scene parameters edited by the *)
(* UI.                                                                     *)
(***************************************************************************)
EXTENDS Integers, Sequences, FiniteSets, TLC

(* ---------- bounds of the environment ---------- *)

\* longest message queue the window system is allowed to build up
MaxQueue == 1
\* number of WM_SIZE notifications the window system produces in one run
MaxResize == 1
\* number of scene parameters the user edits through the UI in one run
MaxEdits == 1

(* ---------- program constants ---------- *)

\* constexpr LONG MIN_WINDOW_DIMENSION{ 8 }
MIN_WINDOW_DIMENSION == 8

\* null ComPtr / no object bound
NULL == 0

\* messages the queue can hold; WM_QUIT is produced by PostQuitMessage
Messages == {"WM_SIZE", "WM_DESTROY", "WM_OTHER"}

\* client rectangles (right, bottom) GetClientRect can report: the empty one
\* of a minimised window, and one with a side below and a side above the
\* minimum dimension
ClientRects == {<<0, 0>>, <<5, 16>>}

\* abstract XMFLOAT3 values: the initial ones of Entry() and one more that a
\* widget can set
Points == {"origin", "p212", "p22m5", "p111"}
Colors == {"red", "white", "green"}

\* the two dynamic constant buffers
Buffers == {"cb_scene", "cb_object"}

\* contents of a buffer whose storage was invalidated by D3D11_MAP_WRITE_DISCARD
Garbage == "garbage"

\* the same for a field that holds a matrix
GarbageMatrix == <<"garbage">>

\* the fields of SceneConstants and of ObjectConstants, and those that are matrices
SceneConstants == {"view", "projection", "world_eye"}
ObjectConstants == {"model", "color", "position", "radius"}
MatrixFields == {"view", "projection", "model"}

\* a pointer that points at no mapped storage
NoBuffer == "none"

VARIABLES
    pc,               \* position of the thread inside main()/Entry()
    s_did_resize,     \* static bool s_did_resize
    queue,            \* posted messages of the thread
    quit_posted,      \* PostQuitMessage was called and WM_QUIT not yet retrieved
    msg,              \* MSG msg (its message field)
    surf_gen,         \* generation of the swap chain's buffers (ResizeBuffers calls)
    framebuffer,      \* Framebuffer framebuffer: m_back_buffer, m_back_buffer_rtv
    ctx,              \* bindings of the immediate context
    mapped,           \* buffers currently mapped by the CPU
    cbuf,             \* contents of cb_scene and cb_object
    constants,        \* the pointer obtained from SubresourceMap::Data()
    scene,            \* camera / sphere / light parameters of Entry()
    window_wh,        \* window_w, window_h of the current iteration
    calls,            \* API calls issued by the current loop iteration
    draws,            \* what each DrawIndexed of the current iteration read
    raised,           \* resize signals raised since the last presented frame
    size_events,      \* WM_SIZE notifications produced so far
    edits,            \* UI edits performed so far
    rect,             \* RECT rect of the current iteration (right, bottom)
    failed_call,      \* the call whose result was a failure, "none" before
    cout,             \* what main() has written to std::cout
    mesh_pc,          \* position inside Mesh::Mesh
    mesh_args,        \* arguments of the call of Mesh::Mesh
    mesh,             \* members of the Mesh under construction
    created           \* ByteWidth of each CreateBuffer call of Mesh::Mesh

vars == <<pc, s_did_resize, queue, quit_posted, msg, surf_gen, framebuffer, ctx,
          mapped, cbuf, constants, scene, window_wh, calls, draws,
          raised, size_events, edits, rect, failed_call, cout,
          mesh_pc, mesh_args, mesh, created>>

\* the state of a call of Mesh::Mesh
mesh_vars == <<mesh_pc, mesh_args, mesh, created>>

(* ---------- helpers ---------- *)

Max(a, b) == IF a >= b THEN a ELSE b

\* Framebuffer::Framebuffer(): both ComPtrs null
EmptyFramebuffer == [back_buffer |-> NULL, rtv |-> NULL]

\* ID3D11DeviceContext::ClearState: every binding back to its default
ClearedCtx == [rtv |-> NULL, viewport |-> <<0, 0>>, slots |-> {}]

\* bindings set by "prepare pipeline for drawing"
PipelineSlots == {"topology", "input_layout", "vs", "vs_cbufs", "ps", "ps_cbufs", "rs"}

\* bindings set before each draw
MeshSlots == {"index_buffer", "vertex_buffer"}

\* a buffer right after creation or after a discarding Map
ScenePoison == [view |-> GarbageMatrix, projection |-> GarbageMatrix, world_eye |-> Garbage]
ObjectPoison ==
    [model |-> GarbageMatrix, color |-> Garbage, position |-> Garbage, radius |-> Garbage]

\* XMMatrixLookAtLH(eye, target, up)
ViewMatrix(eye, target) == <<"view", eye, target>>

\* XMMatrixPerspectiveFovLH(fov, window_w / window_h, near, far)
ProjectionMatrix(wh) == <<"projection", wh[1], wh[2]>>

\* XMMatrixAffineTransformation(DIAMETER, 0, identity, translation)
ModelMatrix(translation) == <<"model", translation>>

\* what the "upload scene constants" block stores through the pointer
SceneImage(sc, wh) ==
    [view |-> ViewMatrix(sc.camera_position, sc.camera_target),
     projection |-> ProjectionMatrix(wh),
     world_eye |-> sc.camera_position]

\* variant: the sphere's upload does not store the radius
SphereImageNoRadius(sc) ==
    [model |-> ModelMatrix(sc.sphere_position),
     color |-> sc.sphere_color,
     position |-> sc.sphere_position]

\* what the sphere's "upload object constants" block stores
SphereImage(sc) ==
    [model |-> ModelMatrix(sc.sphere_position),
     color |-> sc.sphere_color,
     position |-> sc.sphere_position,
     radius |-> "0.5"]

\* variant: the light's block copies the sphere's parameters
LightImageFromSphere(sc) ==
    [model |-> ModelMatrix(sc.light_position),
     color |-> sc.sphere_color,
     position |-> sc.sphere_position,
     radius |-> "0.5"]

\* what the light's "upload object constants" block stores
LightImage(sc) ==
    [model |-> ModelMatrix(sc.light_position),
     color |-> sc.light_color,
     position |-> sc.light_position,
     radius |-> "0.5"]

\* the swap chain's images are referenced by a live view or by a binding
SwapChainReferenced == framebuffer.back_buffer # NULL \/ framebuffer.rtv # NULL \/ ctx.rtv # NULL

\* number of entries of the call log that are the call c
RECURSIVE CountCalls(_, _)
CountCalls(log, c) ==
    IF log = <<>> THEN 0
    ELSE (IF Head(log) = c THEN 1 ELSE 0) + CountCalls(Tail(log), c)

\* position of the first entry c of the log, 0 when there is none
RECURSIVE FirstIndexFrom(_, _, _)
FirstIndexFrom(log, c, i) ==
    IF i > Len(log) THEN 0
    ELSE IF log[i] = c THEN i ELSE FirstIndexFrom(log, c, i + 1)
FirstIndex(log, c) == FirstIndexFrom(log, c, 1)

\* position of the last entry c of the log, 0 when there is none
RECURSIVE LastIndexFrom(_, _, _)
LastIndexFrom(log, c, i) ==
    IF i = 0 THEN 0
    ELSE IF log[i] = c THEN i ELSE LastIndexFrom(log, c, i - 1)
LastIndex(log, c) == LastIndexFrom(log, c, Len(log))

(* ---------- UINT arithmetic ---------- *)

\* a UINT is written as its four bytes, least significant first
Radix == 2^8

\* the UINT whose value is n
UINT(n) == <<n % Radix, (n \div Radix) % Radix, (n \div Radix^2) % Radix, (n \div Radix^3) % Radix>>

\* 0xFFFFFFFF
UINT_MAX == <<Radix - 1, Radix - 1, Radix - 1, Radix - 1>>

\* a * b of two UINT operands: the low 32 bits of the product
MulUINT(a, b) ==
    LET c0 == a[1] * b[1]
        c1 == a[1] * b[2] + a[2] * b[1] + (c0 \div Radix)
        c2 == a[1] * b[3] + a[2] * b[2] + a[3] * b[1] + (c1 \div Radix)
        c3 == a[1] * b[4] + a[2] * b[3] + a[3] * b[2] + a[4] * b[1] + (c2 \div Radix)
    IN <<c0 % Radix, c1 % Radix, c2 % Radix, c3 % Radix>>

(* ---------- Mesh ---------- *)

\* largest small index_size a caller passes
MaxIndexSize == 5

\* arguments a caller can pass to Mesh::Mesh: zero, ordinary values, values
\* whose products exceed 32 bits, and the largest UINT
VertexCounts == {UINT(0), UINT(1), UINT(24), <<0, 0, 0, 128>>, UINT_MAX}
VertexSizes == {UINT(0), UINT(2), UINT(12), <<0, 0, 0, 128>>}
IndexCounts == {UINT(0), UINT(36), <<0, 0, 0, 64>>, UINT_MAX}
IndexSizes == {UINT(k) : k \in 0..MaxIndexSize} \cup {UINT_MAX}

\* D3D_FEATURE_LEVEL required_lvl{ D3D_FEATURE_LEVEL_11_0 }
required_lvl == "D3D_FEATURE_LEVEL_11_0"

\* values D3D11CreateDevice can store in supported_lvl
FeatureLevels == {"D3D_FEATURE_LEVEL_11_0", "D3D_FEATURE_LEVEL_10_1"}

\* Mesh::Cube: 24 vertices of sizeof(Vertex) bytes, 36 indices of sizeof(UINT) bytes
CubeArgs ==
    [vertex_count |-> UINT(24), vertex_size |-> UINT(12),
     index_count |-> UINT(36), index_size |-> UINT(4)]

\* no Mesh object exists
NoMesh == [exists |-> FALSE]

(* ---------- initial state ---------- *)

InitScene ==
    [camera_position |-> "p22m5", camera_target |-> "origin",
     sphere_position |-> "origin", sphere_color |-> "red",
     light_position |-> "p212", light_color |-> "white"]

Init ==
    /\ pc = "init_dpi"
    /\ s_did_resize = FALSE
    /\ queue = <<>>
    /\ quit_posted = FALSE
    /\ msg = "WM_NULL"
    /\ surf_gen = 0
    /\ framebuffer = EmptyFramebuffer
    /\ ctx = ClearedCtx
    /\ mapped = {}
    /\ cbuf = [cb_scene |-> ScenePoison, cb_object |-> ObjectPoison]
    /\ constants = NoBuffer
    /\ scene = InitScene
    /\ window_wh = <<0, 0>>
    /\ calls = <<>>
    /\ draws = <<>>
    /\ raised = 0
    /\ size_events = 0
    /\ edits = 0
    /\ rect = <<0, 0>>
    /\ failed_call = "none"
    /\ cout = <<>>
    /\ mesh_pc = "not_called"
    /\ mesh_args = CubeArgs
    /\ mesh = NoMesh
    /\ created = <<>>

(* ---------- failure: Crash() throws, main() catches ---------- *)

\* Check(p) with p false: the exception leaves Entry()
Crash ==
    /\ pc' = "crashed"

\* Check(p) / CheckHR(hr) at the call `site` with p false or hr a failure code
Throw(site) ==
    /\ Crash
    /\ failed_call' = site

\* main(): catch (const std::runtime_error& e) prints e.what() and returns 0
MainCatch ==
    /\ UNCHANGED <<rect, failed_call, mesh_vars>>
    /\ pc = "crashed"
    /\ pc' = "exited"
    /\ cout' = Append(cout, failed_call)
    /\ UNCHANGED <<s_did_resize, queue, quit_posted, msg, surf_gen, framebuffer, ctx,
                   mapped, cbuf, constants, scene, window_wh, calls, draws,
                   raised, size_events, edits>>

(* ---------- the window procedure ---------- *)

\* Win32WindowProc: the value of s_did_resize after the call
WndProcResizeFlag(message, imgui_handled, flag) ==
    IF imgui_handled THEN flag
    ELSE IF message = "WM_SIZE" THEN TRUE ELSE flag

\* Win32WindowProc: whether PostQuitMessage has been called after the call
WndProcQuitFlag(message, imgui_handled, flag) ==
    IF imgui_handled THEN flag
    ELSE IF message = "WM_DESTROY" THEN TRUE ELSE flag

\* the call of Win32WindowProc by the window system
WndProc(message, imgui_handled) ==
    /\ s_did_resize' = WndProcResizeFlag(message, imgui_handled, s_did_resize)
    /\ quit_posted' = WndProcQuitFlag(message, imgui_handled, quit_posted)
    /\ raised' = IF s_did_resize' /\ ~imgui_handled /\ message = "WM_SIZE"
                 THEN raised + 1 ELSE raised

(* ---------- the window system (environment) ---------- *)

\* the user resizes, minimises or restores the window: a WM_SIZE notification
\* becomes pending
UserResize ==
    /\ UNCHANGED <<rect, failed_call, cout, mesh_vars>>
    /\ pc \notin {"crashed", "exited"}
    /\ Len(queue) < MaxQueue
    /\ size_events < MaxResize
    /\ queue' = Append(queue, "WM_SIZE")
    /\ size_events' = size_events + 1
    /\ UNCHANGED <<pc, s_did_resize, quit_posted, msg, surf_gen, framebuffer, ctx,
                   mapped, cbuf, constants, scene, window_wh, calls, draws,
                   raised, edits>>

\* any other message becomes pending (input, paint, close/destroy)
PostMessage ==
    /\ UNCHANGED <<rect, failed_call, cout, mesh_vars>>
    /\ pc \notin {"crashed", "exited"}
    /\ Len(queue) < MaxQueue
    /\ \E m \in Messages \ {"WM_SIZE"} : queue' = Append(queue, m)
    /\ UNCHANGED <<pc, s_did_resize, quit_posted, msg, surf_gen, framebuffer, ctx,
                   mapped, cbuf, constants, scene, window_wh, calls, draws,
                   raised, size_events, edits>>

(* ---------- Framebuffer ---------- *)

\* Framebuffer::Framebuffer(d3d_dev, swap_chain): GetBuffer(0) then
\* CreateRenderTargetView on it; the view is of the swap chain's current buffers
BuiltFramebuffer == [back_buffer |-> surf_gen, rtv |-> surf_gen]

\* framebuffer = {}: move assignment from a default constructed Framebuffer
DiscardedFramebuffer == EmptyFramebuffer

(* ---------- Entry(): initialisation ---------- *)

\* the initialisation steps of Entry() in program order
InitOrder ==
    <<"init_dpi", "init_class", "init_window", "init_device", "init_swap_chain",
      "init_framebuffer", "init_imgui", "init_vs", "init_ps", "init_input_layout",
      "init_rs_default", "init_cb_scene", "init_cb_object", "init_cube", "loop_test">>

\* the steps that are not behind a Check
Unchecked == {"init_imgui"}

AfterInit(step) ==
    LET i == CHOOSE k \in 1..Len(InitOrder) : InitOrder[k] = step
    IN InitOrder[i + 1]

\* variant: the result of a creation call is not checked and Entry() goes on
InitStepUnchecked ==
    /\ UNCHANGED <<rect, cout, mesh_vars>>
    /\ pc \in {InitOrder[k] : k \in 1..(Len(InitOrder) - 1)} \ {"init_window", "init_device", "init_swap_chain", "init_framebuffer", "init_cube"}
    /\ \/ pc' = AfterInit(pc) /\ UNCHANGED failed_call
       \/ pc \notin Unchecked /\ pc' = AfterInit(pc) /\ failed_call' = pc
    /\ UNCHANGED <<s_did_resize, queue, quit_posted, msg, surf_gen, framebuffer, ctx,
                   mapped, cbuf, constants, scene, window_wh, calls, draws,
                   raised, size_events, edits>>

\* a checked creation call: it succeeds, or its Check throws
InitStep ==
    /\ UNCHANGED <<rect, cout, mesh_vars>>
    /\ pc \in {InitOrder[k] : k \in 1..(Len(InitOrder) - 1)} \ {"init_window", "init_device", "init_swap_chain", "init_framebuffer", "init_cube"}
    /\ \/ pc' = AfterInit(pc) /\ UNCHANGED failed_call
       \/ pc \notin Unchecked /\ Throw(pc)
    /\ UNCHANGED <<s_did_resize, queue, quit_posted, msg, surf_gen, framebuffer, ctx,
                   mapped, cbuf, constants, scene, window_wh, calls, draws,
                   raised, size_events, edits>>

\* CreateD3D11Device: CheckHR(D3D11CreateDevice(...)), then
\* Check(required_lvl == supported_lvl)
CreateD3D11Device ==
    /\ UNCHANGED <<rect, cout, mesh_vars>>
    /\ pc = "init_device"
    /\ \E succeeded \in BOOLEAN, supported_lvl \in FeatureLevels :
          IF ~succeeded THEN Throw("D3D11CreateDevice")
          ELSE IF required_lvl # supported_lvl THEN Throw("required_lvl == supported_lvl")
          ELSE pc' = AfterInit(pc) /\ UNCHANGED failed_call
    /\ UNCHANGED <<s_did_resize, queue, quit_posted, msg, surf_gen, framebuffer, ctx,
                   mapped, cbuf, constants, scene, window_wh, calls, draws,
                   raised, size_events, edits>>

\* CreateWin32Window: CreateWindowExA of a WS_VISIBLE window, which may call the
\* window procedure with WM_SIZE before it returns
CreateWin32Window ==
    /\ UNCHANGED <<rect, cout, mesh_vars>>
    /\ pc = "init_window"
    /\ \/ /\ pc' = AfterInit(pc)
          /\ \/ WndProc("WM_SIZE", FALSE)
             \/ UNCHANGED <<s_did_resize, quit_posted, raised>>
          /\ UNCHANGED failed_call
       \/ Throw(pc) /\ UNCHANGED <<s_did_resize, quit_posted, raised>>
    /\ UNCHANGED <<queue, msg, surf_gen, framebuffer, ctx,
                   mapped, cbuf, constants, scene, window_wh, calls, draws,
                   size_events, edits>>

\* CreateDXGISwapChain: the swap chain's first pair of buffers exists
CreateDXGISwapChain ==
    /\ UNCHANGED <<rect, cout, mesh_vars>>
    /\ pc = "init_swap_chain"
    /\ \/ /\ surf_gen' = 1
          /\ pc' = AfterInit(pc)
          /\ UNCHANGED failed_call
       \/ Throw(pc) /\ UNCHANGED surf_gen
    /\ UNCHANGED <<s_did_resize, queue, quit_posted, msg, framebuffer, ctx,
                   mapped, cbuf, constants, scene, window_wh, calls, draws,
                   raised, size_events, edits>>

\* Framebuffer framebuffer{ d3d_dev.Get(), swap_chain.Get() }
CreateFramebuffer ==
    /\ UNCHANGED <<rect, cout, mesh_vars>>
    /\ pc = "init_framebuffer"
    /\ \/ /\ framebuffer' = BuiltFramebuffer
          /\ calls' = Append(calls, "Build")
          /\ pc' = AfterInit(pc)
          /\ UNCHANGED failed_call
       \/ Throw(pc) /\ UNCHANGED <<framebuffer, calls>>
    /\ UNCHANGED <<s_did_resize, queue, quit_posted, msg, surf_gen, ctx,
                   mapped, cbuf, constants, scene, window_wh, draws,
                   raised, size_events, edits>>

(* ---------- Mesh::Mesh ---------- *)

\* the members after the constructor's initializer list
MeshMembers(a) ==
    [m_vertices |-> NULL, m_indices |-> NULL,
     m_vertex_count |-> a.vertex_count, m_index_count |-> a.index_count,
     m_stride |-> a.vertex_size, m_index_format |-> "DXGI_FORMAT_UNKNOWN",
     m_offset |-> UINT(0)]

\* variant: the constructor does not check index_count
FirstFailedCheckNoIndexCount(a) ==
    IF a.vertex_count = UINT(0) THEN "vertex_count > 0"
    ELSE IF a.vertex_size = UINT(0) THEN "vertex_size > 0"
    ELSE IF ~(a.index_size # UINT(0) /\ (a.index_size = UINT(2) \/ a.index_size = UINT(4)))
         THEN "index_size > 0 && (index_size == 2 || index_size == 4)"
    ELSE "none"

\* the four Check()s at the top of the constructor, in order: the first one
\* that fails, "none" when all hold
FirstFailedCheck(a) ==
    IF a.vertex_count = UINT(0) THEN "vertex_count > 0"
    ELSE IF a.index_count = UINT(0) THEN "index_count > 0"
    ELSE IF a.vertex_size = UINT(0) THEN "vertex_size > 0"
    ELSE IF ~(a.index_size # UINT(0) /\ (a.index_size = UINT(2) \/ a.index_size = UINT(4)))
         THEN "index_size > 0 && (index_size == 2 || index_size == 4)"
    ELSE "none"

\* variant: the two cases of the switch are exchanged
SwitchIndexSizeSwapped(index_size) ==
    IF index_size = UINT(2) THEN "DXGI_FORMAT_R32_UINT"
    ELSE IF index_size = UINT(4) THEN "DXGI_FORMAT_R16_UINT"
    ELSE "unreachable code path"

\* switch (index_size): the format, or the message of Unreachable()
SwitchIndexSize(index_size) ==
    IF index_size = UINT(2) THEN "DXGI_FORMAT_R16_UINT"
    ELSE IF index_size = UINT(4) THEN "DXGI_FORMAT_R32_UINT"
    ELSE "unreachable code path"

\* the accessors VertexCount(), IndexCount() and IndexFormat()
VertexCount(m) == m.m_vertex_count
IndexCount(m) == m.m_index_count
IndexFormat(m) == m.m_index_format

\* SUCCEEDED(d3d_dev->CreateBuffer(&desc, &data, ...)): the device refuses a
\* buffer of no bytes and may refuse any other (out of memory, device removed)
CreateBufferResults(byte_width) ==
    IF byte_width = UINT(0) THEN {FALSE} ELSE {TRUE, FALSE}

\* an exception leaves the constructor: no Mesh comes to exist
MeshThrow(site) ==
    /\ Throw(site)
    /\ mesh_pc' = "thrown"
    /\ mesh' = NoMesh

\* Mesh::Cube(d3d_dev): the call of the constructor with the cube's arrays
MeshCube ==
    /\ pc = "init_cube"
    /\ mesh_pc = "not_called"
    /\ mesh_args' = CubeArgs
    /\ mesh_pc' = "entry"
    /\ UNCHANGED <<pc, s_did_resize, queue, quit_posted, msg, surf_gen, framebuffer, ctx,
                   mapped, cbuf, constants, scene, window_wh, calls, draws,
                   raised, size_events, edits, rect, failed_call, cout, mesh, created>>

\* the initializer list and the four Check()s
MeshChecks ==
    /\ pc = "init_cube"
    /\ mesh_pc = "entry"
    /\ IF FirstFailedCheck(mesh_args) = "none"
       THEN /\ mesh' = MeshMembers(mesh_args)
            /\ mesh_pc' = "switch"
            /\ UNCHANGED <<pc, failed_call>>
       ELSE MeshThrow(FirstFailedCheck(mesh_args))
    /\ UNCHANGED <<s_did_resize, queue, quit_posted, msg, surf_gen, framebuffer, ctx,
                   mapped, cbuf, constants, scene, window_wh, calls, draws,
                   raised, size_events, edits, rect, cout, mesh_args, created>>

\* set index format based on index stride
MeshIndexFormat ==
    /\ pc = "init_cube"
    /\ mesh_pc = "switch"
    /\ IF SwitchIndexSize(mesh_args.index_size) # "unreachable code path"
       THEN /\ mesh' = [mesh EXCEPT !.m_index_format = SwitchIndexSize(mesh_args.index_size)]
            /\ mesh_pc' = "create_vertices"
            /\ UNCHANGED <<pc, failed_call>>
       ELSE MeshThrow("unreachable code path")
    /\ UNCHANGED <<s_did_resize, queue, quit_posted, msg, surf_gen, framebuffer, ctx,
                   mapped, cbuf, constants, scene, window_wh, calls, draws,
                   raised, size_events, edits, rect, cout, mesh_args, created>>

\* upload vertices to the GPU: desc.ByteWidth = m_vertex_count * vertex_size
MeshCreateVertices ==
    /\ pc = "init_cube"
    /\ mesh_pc = "create_vertices"
    /\ LET byte_width == MulUINT(mesh.m_vertex_count, mesh_args.vertex_size)
       IN /\ created' = Append(created, [BindFlags |-> "D3D11_BIND_VERTEX_BUFFER",
                                         ByteWidth |-> byte_width])
          /\ \E ok \in CreateBufferResults(byte_width) :
                IF ok
                THEN /\ mesh' = [mesh EXCEPT !.m_vertices = Len(created')]
                     /\ mesh_pc' = "create_indices"
                     /\ UNCHANGED <<pc, failed_call>>
                ELSE MeshThrow("CreateBuffer")
    /\ UNCHANGED <<s_did_resize, queue, quit_posted, msg, surf_gen, framebuffer, ctx,
                   mapped, cbuf, constants, scene, window_wh, calls, draws,
                   raised, size_events, edits, rect, cout, mesh_args>>

\* upload indices to the GPU: desc.ByteWidth = m_index_count * index_size; the
\* constructor returns and Entry() goes on
MeshCreateIndices ==
    /\ pc = "init_cube"
    /\ mesh_pc = "create_indices"
    /\ LET byte_width == MulUINT(mesh.m_index_count, mesh_args.index_size)
       IN /\ created' = Append(created, [BindFlags |-> "D3D11_BIND_INDEX_BUFFER",
                                         ByteWidth |-> byte_width])
          /\ \E ok \in CreateBufferResults(byte_width) :
                IF ok
                THEN /\ mesh' = [mesh EXCEPT !.m_indices = Len(created')]
                     /\ mesh_pc' = "constructed"
                     /\ pc' = AfterInit(pc)
                     /\ UNCHANGED failed_call
                ELSE MeshThrow("CreateBuffer")
    /\ UNCHANGED <<s_did_resize, queue, quit_posted, msg, surf_gen, framebuffer, ctx,
                   mapped, cbuf, constants, scene, window_wh, calls, draws,
                   raised, size_events, edits, rect, cout, mesh_args>>

(* ---------- Entry(): the message pump ---------- *)

\* variant: the loop condition does not look at the message
LoopTestIgnoresQuit ==
    /\ UNCHANGED <<failed_call, cout, mesh_vars>>
    /\ pc = "loop_test"
    /\ pc' = "peek"
    /\ calls' = <<>>
    /\ draws' = <<>>
    /\ window_wh' = <<0, 0>>
    /\ rect' = <<0, 0>>
    /\ UNCHANGED <<s_did_resize, queue, quit_posted, msg, surf_gen, framebuffer, ctx,
                   mapped, cbuf, constants, scene,
                   raised, size_events, edits>>

\* while (msg.message != WM_QUIT)
LoopTest ==
    /\ UNCHANGED <<failed_call, cout, mesh_vars>>
    /\ pc = "loop_test"
    /\ pc' = IF msg # "WM_QUIT" THEN "peek" ELSE "exited"
    /\ calls' = <<>>
    /\ draws' = <<>>
    /\ window_wh' = <<0, 0>>
    /\ rect' = <<0, 0>>
    /\ UNCHANGED <<s_did_resize, queue, quit_posted, msg, surf_gen, framebuffer, ctx,
                   mapped, cbuf, constants, scene,
                   raised, size_events, edits>>

\* variant: the poll waits for a message when there is none (GetMessageA)
PeekMessageABlocking ==
    /\ UNCHANGED <<rect, failed_call, cout, mesh_vars>>
    /\ pc = "peek"
    /\ queue # <<>> \/ quit_posted
    /\ IF queue # <<>>
       THEN /\ msg' = Head(queue)
            /\ queue' = Tail(queue)
            /\ pc' = "dispatch"
            /\ UNCHANGED quit_posted
       ELSE /\ msg' = "WM_QUIT"
            /\ quit_posted' = FALSE
            /\ pc' = "dispatch"
            /\ UNCHANGED queue
    /\ UNCHANGED <<s_did_resize, surf_gen, framebuffer, ctx,
                   mapped, cbuf, constants, scene, window_wh, calls, draws,
                   raised, size_events, edits>>

\* PeekMessageA(&msg, nullptr, 0, 0, PM_REMOVE): a posted message if there is
\* one, else WM_QUIT if PostQuitMessage was called, else nothing
PeekMessageA ==
    /\ UNCHANGED <<rect, failed_call, cout, mesh_vars>>
    /\ pc = "peek"
    /\ IF queue # <<>>
       THEN /\ msg' = Head(queue)
            /\ queue' = Tail(queue)
            /\ pc' = "dispatch"
            /\ UNCHANGED quit_posted
       ELSE IF quit_posted
       THEN /\ msg' = "WM_QUIT"
            /\ quit_posted' = FALSE
            /\ pc' = "dispatch"
            /\ UNCHANGED queue
       ELSE /\ pc' = "resize_check"
            /\ UNCHANGED <<msg, queue, quit_posted>>
    /\ UNCHANGED <<s_did_resize, surf_gen, framebuffer, ctx,
                   mapped, cbuf, constants, scene, window_wh, calls, draws,
                   raised, size_events, edits>>

\* variant: the frame is rendered after the dispatch, in the same iteration
DispatchMessageAThenFrame ==
    /\ UNCHANGED <<rect, failed_call, cout, mesh_vars>>
    /\ pc = "dispatch"
    /\ IF msg = "WM_QUIT"
       THEN UNCHANGED <<s_did_resize, quit_posted, raised>>
       ELSE \E imgui_handled \in BOOLEAN : WndProc(msg, imgui_handled)
    /\ pc' = "resize_check"
    /\ UNCHANGED <<queue, msg, surf_gen, framebuffer, ctx,
                   mapped, cbuf, constants, scene, window_wh, calls, draws,
                   size_events, edits>>

\* TranslateMessage(&msg); DispatchMessageA(&msg): the window procedure runs
\* for a window message; WM_QUIT has no window
DispatchMessageA ==
    /\ UNCHANGED <<rect, failed_call, cout, mesh_vars>>
    /\ pc = "dispatch"
    /\ IF msg = "WM_QUIT"
       THEN UNCHANGED <<s_did_resize, quit_posted, raised>>
       ELSE \E imgui_handled \in BOOLEAN : WndProc(msg, imgui_handled)
    /\ pc' = "loop_test"
    /\ UNCHANGED <<queue, msg, surf_gen, framebuffer, ctx,
                   mapped, cbuf, constants, scene, window_wh, calls, draws,
                   size_events, edits>>

(* ---------- Entry(): handle resize event ---------- *)

\* variant: the loop never looks at the resize signal
ResizeCheckIgnored ==
    /\ UNCHANGED <<rect, failed_call, cout, mesh_vars>>
    /\ pc = "resize_check"
    /\ pc' = "fetch_size"
    /\ UNCHANGED <<s_did_resize, queue, quit_posted, msg, surf_gen, framebuffer, ctx,
                   mapped, cbuf, constants, scene, window_wh, calls, draws,
                   raised, size_events, edits>>

\* variant: the framebuffer is rebuilt in every iteration
ResizeCheckAlways ==
    /\ UNCHANGED <<rect, failed_call, cout, mesh_vars>>
    /\ pc = "resize_check"
    /\ pc' = "rs_clear_state"
    /\ UNCHANGED <<s_did_resize, queue, quit_posted, msg, surf_gen, framebuffer, ctx,
                   mapped, cbuf, constants, scene, window_wh, calls, draws,
                   raised, size_events, edits>>

\* if (s_did_resize)
ResizeCheck ==
    /\ UNCHANGED <<rect, failed_call, cout, mesh_vars>>
    /\ pc = "resize_check"
    /\ pc' = IF s_did_resize THEN "rs_clear_state" ELSE "fetch_size"
    /\ UNCHANGED <<s_did_resize, queue, quit_posted, msg, surf_gen, framebuffer, ctx,
                   mapped, cbuf, constants, scene, window_wh, calls, draws,
                   raised, size_events, edits>>

\* variant: the handler leaves the context's bindings in place
ResizeClearStateSkipped ==
    /\ UNCHANGED <<rect, failed_call, cout, mesh_vars>>
    /\ pc = "rs_clear_state"
    /\ pc' = "rs_discard"
    /\ UNCHANGED <<s_did_resize, queue, quit_posted, msg, surf_gen, framebuffer, ctx,
                   mapped, cbuf, constants, scene, window_wh, calls, draws,
                   raised, size_events, edits>>

\* d3d_ctx->ClearState()
ResizeClearState ==
    /\ UNCHANGED <<rect, failed_call, cout, mesh_vars>>
    /\ pc = "rs_clear_state"
    /\ ctx' = ClearedCtx
    /\ calls' = Append(calls, "ClearState")
    /\ pc' = "rs_discard"
    /\ UNCHANGED <<s_did_resize, queue, quit_posted, msg, surf_gen, framebuffer,
                   mapped, cbuf, constants, scene, window_wh, draws,
                   raised, size_events, edits>>

\* variant: the handler resizes without destroying the framebuffer first
ResizeDiscardSkipped ==
    /\ UNCHANGED <<rect, failed_call, cout, mesh_vars>>
    /\ pc = "rs_discard"
    /\ pc' = "rs_resize_buffers"
    /\ UNCHANGED <<s_did_resize, queue, quit_posted, msg, surf_gen, framebuffer, ctx,
                   mapped, cbuf, constants, scene, window_wh, calls, draws,
                   raised, size_events, edits>>

\* framebuffer = {}
ResizeDiscard ==
    /\ UNCHANGED <<rect, failed_call, cout, mesh_vars>>
    /\ pc = "rs_discard"
    /\ framebuffer' = DiscardedFramebuffer
    /\ calls' = Append(calls, "Discard")
    /\ pc' = "rs_resize_buffers"
    /\ UNCHANGED <<s_did_resize, queue, quit_posted, msg, surf_gen, ctx,
                   mapped, cbuf, constants, scene, window_wh, draws,
                   raised, size_events, edits>>

\* variant: the signal is cleared as soon as the swap chain is resized, before
\* the new framebuffer exists
ResizeBuffersClearsFlag ==
    /\ UNCHANGED <<rect, cout, mesh_vars>>
    /\ pc = "rs_resize_buffers"
    /\ calls' = Append(calls, "ResizeBuffers")
    /\ \/ /\ ~SwapChainReferenced
          /\ surf_gen' = surf_gen + 1
          /\ s_did_resize' = FALSE
          /\ pc' = "rs_build"
          /\ UNCHANGED failed_call
       \/ Throw("ResizeBuffers") /\ UNCHANGED <<surf_gen, s_did_resize>>
    /\ UNCHANGED <<queue, quit_posted, msg, framebuffer, ctx,
                   mapped, cbuf, constants, scene, window_wh, draws,
                   raised, size_events, edits>>

\* CheckHR(swap_chain->ResizeBuffers(0, 0, 0, DXGI_FORMAT_UNKNOWN, 0)): DXGI
\* refuses while a buffer of the swap chain is still referenced
ResizeBuffers ==
    /\ UNCHANGED <<rect, cout, mesh_vars>>
    /\ pc = "rs_resize_buffers"
    /\ calls' = Append(calls, "ResizeBuffers")
    /\ \/ /\ ~SwapChainReferenced
          /\ surf_gen' = surf_gen + 1
          /\ pc' = "rs_build"
          /\ UNCHANGED failed_call
       \/ Throw("ResizeBuffers") /\ UNCHANGED surf_gen
    /\ UNCHANGED <<s_did_resize, queue, quit_posted, msg, framebuffer, ctx,
                   mapped, cbuf, constants, scene, window_wh, draws,
                   raised, size_events, edits>>

\* variant: the handler destroys the framebuffer and never creates the new one
ResizeBuildForgotten ==
    /\ UNCHANGED <<rect, failed_call, cout, mesh_vars>>
    /\ pc = "rs_build"
    /\ pc' = "rs_clear_flag"
    /\ UNCHANGED <<s_did_resize, queue, quit_posted, msg, surf_gen, framebuffer, ctx,
                   mapped, cbuf, constants, scene, window_wh, calls, draws,
                   raised, size_events, edits>>

\* framebuffer = { d3d_dev.Get(), swap_chain.Get() }
ResizeBuild ==
    /\ UNCHANGED <<rect, cout, mesh_vars>>
    /\ pc = "rs_build"
    /\ \/ /\ framebuffer' = BuiltFramebuffer
          /\ calls' = Append(calls, "Build")
          /\ pc' = "rs_clear_flag"
          /\ UNCHANGED failed_call
       \/ Throw("Build") /\ UNCHANGED <<framebuffer, calls>>
    /\ UNCHANGED <<s_did_resize, queue, quit_posted, msg, surf_gen, ctx,
                   mapped, cbuf, constants, scene, window_wh, draws,
                   raised, size_events, edits>>

\* variant: the signal is never cleared
ResizeFlagNotCleared ==
    /\ UNCHANGED <<rect, failed_call, cout, mesh_vars>>
    /\ pc = "rs_clear_flag"
    /\ pc' = "fetch_size"
    /\ UNCHANGED <<s_did_resize, queue, quit_posted, msg, surf_gen, framebuffer, ctx,
                   mapped, cbuf, constants, scene, window_wh, calls, draws,
                   raised, size_events, edits>>

\* s_did_resize = false
ResizeClearFlag ==
    /\ UNCHANGED <<rect, failed_call, cout, mesh_vars>>
    /\ pc = "rs_clear_flag"
    /\ s_did_resize' = FALSE
    /\ pc' = "fetch_size"
    /\ UNCHANGED <<queue, quit_posted, msg, surf_gen, framebuffer, ctx,
                   mapped, cbuf, constants, scene, window_wh, calls, draws,
                   raised, size_events, edits>>

(* ---------- Entry(): fetch window size ---------- *)

\* variant: the dimension is used as GetClientRect reports it
SanitizeDimensionUnclamped(d) == d

\* std::max(rect.right, MIN_WINDOW_DIMENSION)
SanitizeDimension(d) == Max(d, MIN_WINDOW_DIMENSION)

\* Check(GetClientRect(window, &rect)); window_w, window_h
FetchWindowSize ==
    /\ UNCHANGED <<cout, mesh_vars>>
    /\ pc = "fetch_size"
    /\ \/ /\ \E r \in ClientRects : rect' = r
          /\ window_wh' = <<SanitizeDimension(rect'[1]), SanitizeDimension(rect'[2])>>
          /\ pc' = "clear_rtv"
          /\ UNCHANGED failed_call
       \/ Throw("GetClientRect") /\ UNCHANGED <<rect, window_wh>>
    /\ UNCHANGED <<s_did_resize, queue, quit_posted, msg, surf_gen, framebuffer, ctx,
                   mapped, cbuf, constants, scene, calls, draws,
                   raised, size_events, edits>>

(* ---------- Entry(): render scene ---------- *)

\* what the shaders read from a constant-buffer slot: the buffer set by
\* VSSetConstantBuffers / PSSetConstantBuffers, nothing when the slot is empty
SlotContents(buf) ==
    IF {"vs_cbufs", "ps_cbufs"} \subseteq ctx.slots THEN cbuf[buf] ELSE "unbound"

\* what a GPU command reads when it executes
Snapshot(kind) ==
    [kind |-> kind, rtv |-> ctx.rtv, viewport |-> ctx.viewport, slots |-> ctx.slots,
     scene |-> SlotContents("cb_scene"), object |-> SlotContents("cb_object"),
     mapped |-> mapped]

\* d3d_ctx->ClearRenderTargetView(framebuffer.BackBufferRTV(), clear_color)
ClearBackBuffer ==
    /\ UNCHANGED <<rect, failed_call, cout, mesh_vars>>
    /\ pc = "clear_rtv"
    /\ calls' = Append(calls, "ClearRenderTargetView")
    /\ pc' = "prepare_pipeline"
    /\ UNCHANGED <<s_did_resize, queue, quit_posted, msg, surf_gen, framebuffer, ctx,
                   mapped, cbuf, constants, scene, window_wh, draws,
                   raised, size_events, edits>>

\* variant: the render-target view is fetched once, from the first framebuffer
PreparedCtxCachedView == [rtv |-> 1, viewport |-> window_wh, slots |-> PipelineSlots]

\* variant: the block does not set the rasterizer state
PreparedCtxNoRasterizer ==
    [rtv |-> framebuffer.rtv, viewport |-> window_wh, slots |-> PipelineSlots \ {"rs"}]

\* the bindings after "prepare pipeline for drawing": ClearState, then the
\* nine Set calls with rtv = framebuffer.BackBufferRTV() and the viewport
PreparedCtx == [rtv |-> framebuffer.rtv, viewport |-> window_wh, slots |-> PipelineSlots]

\* prepare pipeline for drawing
PreparePipeline ==
    /\ UNCHANGED <<rect, failed_call, cout, mesh_vars>>
    /\ pc = "prepare_pipeline"
    /\ ctx' = PreparedCtx
    /\ calls' = calls \o <<"ClearState", "IASetPrimitiveTopology", "IASetInputLayout",
                           "VSSetShader", "VSSetConstantBuffers", "PSSetShader",
                           "PSSetConstantBuffers", "RSSetState", "RSSetViewports",
                           "OMSetRenderTargets">>
    /\ pc' = "scene_map"
    /\ UNCHANGED <<s_did_resize, queue, quit_posted, msg, surf_gen, framebuffer,
                   mapped, cbuf, constants, scene, window_wh, draws,
                   raised, size_events, edits>>

(* ---------- SubresourceMap ---------- *)

\* contents of a buffer right after Map(D3D11_MAP_WRITE_DISCARD)
Discarded(buf) == IF buf = "cb_scene" THEN ScenePoison ELSE ObjectPoison

\* variant: the result of Map is not checked
SubresourceMapCtorUnchecked(at, buf, next) ==
    /\ UNCHANGED <<rect, cout, mesh_vars>>
    /\ pc = at
    /\ \/ /\ mapped' = mapped \cup {buf}
          /\ cbuf' = [cbuf EXCEPT ![buf] = Discarded(buf)]
          /\ constants' = buf
          /\ calls' = Append(calls, "Map:" \o buf)
          /\ pc' = next
          /\ UNCHANGED failed_call
       \/ /\ failed_call' = "Map"
          /\ pc' = next
          /\ UNCHANGED <<mapped, cbuf, constants, calls>>
    /\ UNCHANGED <<s_did_resize, queue, quit_posted, msg, surf_gen, framebuffer, ctx,
                   scene, window_wh, draws, raised, size_events, edits>>

\* SubresourceMap::SubresourceMap: CheckHR(Map(...)); Data() is the mapped storage
SubresourceMapCtor(at, buf, next) ==
    /\ UNCHANGED <<rect, cout, mesh_vars>>
    /\ pc = at
    /\ \/ /\ mapped' = mapped \cup {buf}
          /\ cbuf' = [cbuf EXCEPT ![buf] = Discarded(buf)]
          /\ constants' = buf
          /\ calls' = Append(calls, "Map:" \o buf)
          /\ pc' = next
          /\ UNCHANGED failed_call
       \/ Throw("Map") /\ UNCHANGED <<mapped, cbuf, constants, calls>>
    /\ UNCHANGED <<s_did_resize, queue, quit_posted, msg, surf_gen, framebuffer, ctx,
                   scene, window_wh, draws, raised, size_events, edits>>

\* variant: the block unmaps first and stores through the retained pointer
StoreAfterUnmap(at, image, next) ==
    /\ UNCHANGED <<rect, failed_call, cout, mesh_vars>>
    /\ pc = at
    /\ constants \in Buffers
    /\ mapped' = mapped \ {constants}
    /\ cbuf' = [cbuf EXCEPT ![constants] = image]
    /\ calls' = calls \o <<"Unmap:" \o constants, "Write:" \o constants>>
    /\ pc' = next
    /\ UNCHANGED <<s_did_resize, queue, quit_posted, msg, surf_gen, framebuffer, ctx,
                   constants, scene, window_wh, draws,
                   raised, size_events, edits>>

\* the mapped storage after the fields of `image` have been stored into it;
\* the other fields keep what they held
RECURSIVE StoreFields(_, _, _)
StoreFields(storage, image, fields) ==
    IF fields = {} THEN storage
    ELSE LET f == CHOOSE x \in fields : TRUE
         IN StoreFields([storage EXCEPT ![f] = image[f]], image, fields \ {f})

\* the stores through the pointer returned by Data()
StoreConstants(at, image, next) ==
    /\ UNCHANGED <<rect, failed_call, cout, mesh_vars>>
    /\ pc = at
    /\ constants \in Buffers
    /\ cbuf' = [cbuf EXCEPT ![constants] = StoreFields(@, image, DOMAIN image)]
    /\ calls' = Append(calls, "Write:" \o constants)
    /\ pc' = next
    /\ UNCHANGED <<s_did_resize, queue, quit_posted, msg, surf_gen, framebuffer, ctx,
                   mapped, constants, scene, window_wh, draws,
                   raised, size_events, edits>>

\* variant: the destructor does not unmap
SubresourceMapDtorNoUnmap(at, buf, next) ==
    /\ UNCHANGED <<rect, failed_call, cout, mesh_vars>>
    /\ pc = at
    /\ constants' = NoBuffer
    /\ pc' = next
    /\ UNCHANGED <<s_did_resize, queue, quit_posted, msg, surf_gen, framebuffer, ctx,
                   mapped, cbuf, scene, window_wh, calls, draws,
                   raised, size_events, edits>>

\* SubresourceMap::~SubresourceMap: Unmap; the block's pointer goes out of scope
SubresourceMapDtor(at, buf, next) ==
    /\ UNCHANGED <<rect, failed_call, cout, mesh_vars>>
    /\ pc = at
    /\ mapped' = mapped \ {buf}
    /\ constants' = NoBuffer
    /\ calls' = Append(calls, "Unmap:" \o buf)
    /\ pc' = next
    /\ UNCHANGED <<s_did_resize, queue, quit_posted, msg, surf_gen, framebuffer, ctx,
                   cbuf, scene, window_wh, draws,
                   raised, size_events, edits>>

\* variant: the mesh is drawn twice
DrawMeshTwice(at, next) ==
    /\ UNCHANGED <<rect, failed_call, cout, mesh_vars>>
    /\ pc = at
    /\ ctx' = [ctx EXCEPT !.slots = @ \cup MeshSlots]
    /\ calls' = calls \o <<"IASetIndexBuffer", "IASetVertexBuffers", "DrawIndexed", "DrawIndexed">>
    /\ draws' = draws \o <<[Snapshot("DrawIndexed") EXCEPT !.slots = @ \cup MeshSlots],
                          [Snapshot("DrawIndexed") EXCEPT !.slots = @ \cup MeshSlots]>>
    /\ pc' = next
    /\ UNCHANGED <<s_did_resize, queue, quit_posted, msg, surf_gen, framebuffer,
                   mapped, cbuf, constants, scene, window_wh,
                   raised, size_events, edits>>

\* IASetIndexBuffer, IASetVertexBuffers, DrawIndexed(cube.IndexCount(), 0, 0)
DrawMesh(at, next) ==
    /\ UNCHANGED <<rect, failed_call, cout, mesh_vars>>
    /\ pc = at
    /\ ctx' = [ctx EXCEPT !.slots = @ \cup MeshSlots]
    /\ calls' = calls \o <<"IASetIndexBuffer", "IASetVertexBuffers", "DrawIndexed">>
    /\ draws' = Append(draws, [Snapshot("DrawIndexed") EXCEPT !.slots = @ \cup MeshSlots])
    /\ pc' = next
    /\ UNCHANGED <<s_did_resize, queue, quit_posted, msg, surf_gen, framebuffer,
                   mapped, cbuf, constants, scene, window_wh,
                   raised, size_events, edits>>

(* ---------- Entry(): upload scene constants, render sphere, render light ---------- *)

SceneMap == SubresourceMapCtor("scene_map", "cb_scene", "scene_write")
SceneWrite == StoreConstants("scene_write", SceneImage(scene, window_wh), "scene_unmap")
SceneUnmap == SubresourceMapDtor("scene_unmap", "cb_scene", "sphere_map")

SphereMap == SubresourceMapCtor("sphere_map", "cb_object", "sphere_write")
SphereWrite == StoreConstants("sphere_write", SphereImage(scene), "sphere_unmap")
SphereUnmap == SubresourceMapDtor("sphere_unmap", "cb_object", "sphere_draw")
SphereDraw == DrawMesh("sphere_draw", "light_map")

LightMap == SubresourceMapCtor("light_map", "cb_object", "light_write")
LightWrite == StoreConstants("light_write", LightImage(scene), "light_unmap")
LightUnmap == SubresourceMapDtor("light_unmap", "cb_object", "light_draw")
LightDraw == DrawMesh("light_draw", "imgui_begin")

(* ---------- Entry(): render ImGui, present ---------- *)

\* the scene parameters a widget can change, with the values it can set
Editable ==
    [camera_position |-> {"p22m5", "p111"}, camera_target |-> {"origin", "p111"},
     sphere_position |-> {"origin", "p111"}, sphere_color |-> {"red", "green"},
     light_position |-> {"p212", "p111"}, light_color |-> {"white", "green"}]

\* imgui_handle.BeginFrame(); the widgets between ImGui::Begin and ImGui::End
ImGuiWidgets ==
    /\ UNCHANGED <<rect, failed_call, cout, mesh_vars>>
    /\ pc = "imgui_begin"
    /\ calls' = Append(calls, "BeginFrame")
    /\ \/ UNCHANGED <<scene, edits>>
       \/ /\ edits < MaxEdits
          /\ edits' = edits + 1
          /\ \E f \in DOMAIN Editable : \E v \in Editable[f] \ {scene[f]} :
                scene' = [scene EXCEPT ![f] = v]
    /\ pc' = "imgui_end"
    /\ UNCHANGED <<s_did_resize, queue, quit_posted, msg, surf_gen, framebuffer, ctx,
                   mapped, cbuf, constants, window_wh, draws,
                   raised, size_events>>

\* ImGuiHandle::EndFrame(framebuffer.BackBufferRTV()): Render,
\* OMSetRenderTargets(1, &rtv, nullptr), ImGui_ImplDX11_RenderDrawData
ImGuiEndFrame ==
    /\ UNCHANGED <<rect, failed_call, cout, mesh_vars>>
    /\ pc = "imgui_end"
    /\ ctx' = [ctx EXCEPT !.rtv = framebuffer.rtv]
    /\ calls' = calls \o <<"OMSetRenderTargets", "RenderDrawData">>
    /\ draws' = Append(draws, [Snapshot("RenderDrawData") EXCEPT !.rtv = framebuffer.rtv])
    /\ pc' = "present"
    /\ UNCHANGED <<s_did_resize, queue, quit_posted, msg, surf_gen, framebuffer,
                   mapped, cbuf, constants, scene, window_wh,
                   raised, size_events, edits>>

\* variant: the result of Present is not checked and the loop goes on
PresentUnchecked ==
    /\ UNCHANGED <<rect, cout, mesh_vars>>
    /\ pc = "present"
    /\ calls' = Append(calls, "Present")
    /\ \/ /\ pc' = "loop_test"
          /\ raised' = 0
          /\ UNCHANGED failed_call
       \/ /\ pc' = "loop_test"
          /\ failed_call' = "Present"
          /\ UNCHANGED raised
    /\ UNCHANGED <<s_did_resize, queue, quit_posted, msg, surf_gen, framebuffer, ctx,
                   mapped, cbuf, constants, scene, window_wh, draws,
                   size_events, edits>>

\* CheckHR(swap_chain->Present(1, 0))
Present ==
    /\ UNCHANGED <<rect, cout, mesh_vars>>
    /\ pc = "present"
    /\ calls' = Append(calls, "Present")
    /\ \/ /\ pc' = "loop_test"
          /\ raised' = 0
          /\ UNCHANGED failed_call
       \/ Throw("Present") /\ UNCHANGED raised
    /\ UNCHANGED <<s_did_resize, queue, quit_posted, msg, surf_gen, framebuffer, ctx,
                   mapped, cbuf, constants, scene, window_wh, draws,
                   size_events, edits>>

(* ---------- specification ---------- *)

Next ==
    \/ UserResize
    \/ CreateD3D11Device
    \/ MeshCube
    \/ MeshChecks
    \/ MeshIndexFormat
    \/ MeshCreateVertices
    \/ MeshCreateIndices
    \/ PostMessage
    \/ InitStep
    \/ CreateWin32Window
    \/ CreateDXGISwapChain
    \/ CreateFramebuffer
    \/ LoopTest
    \/ PeekMessageA
    \/ DispatchMessageA
    \/ ResizeCheck
    \/ ResizeClearState
    \/ ResizeDiscard
    \/ ResizeBuffers
    \/ ResizeBuild
    \/ ResizeClearFlag
    \/ FetchWindowSize
    \/ ClearBackBuffer
    \/ PreparePipeline
    \/ SceneMap
    \/ SceneWrite
    \/ SceneUnmap
    \/ SphereMap
    \/ SphereWrite
    \/ SphereUnmap
    \/ SphereDraw
    \/ LightMap
    \/ LightWrite
    \/ LightUnmap
    \/ LightDraw
    \/ ImGuiWidgets
    \/ ImGuiEndFrame
    \/ Present
    \/ MainCatch

Spec == Init /\ [][Next]_vars

(* ---------- the thread keeps running ---------- *)

\* a step of the thread that runs main(): any step but those of the window system
ThreadStep ==
    \/ CreateD3D11Device
    \/ MeshCube
    \/ MeshChecks
    \/ MeshIndexFormat
    \/ MeshCreateVertices
    \/ MeshCreateIndices
    \/ InitStep
    \/ CreateWin32Window
    \/ CreateDXGISwapChain
    \/ CreateFramebuffer
    \/ LoopTest
    \/ PeekMessageA
    \/ DispatchMessageA
    \/ ResizeCheck
    \/ ResizeClearState
    \/ ResizeDiscard
    \/ ResizeBuffers
    \/ ResizeBuild
    \/ ResizeClearFlag
    \/ FetchWindowSize
    \/ ClearBackBuffer
    \/ PreparePipeline
    \/ SceneMap
    \/ SceneWrite
    \/ SceneUnmap
    \/ SphereMap
    \/ SphereWrite
    \/ SphereUnmap
    \/ SphereDraw
    \/ LightMap
    \/ LightWrite
    \/ LightUnmap
    \/ LightDraw
    \/ ImGuiWidgets
    \/ ImGuiEndFrame
    \/ Present
    \/ MainCatch

\* the position of the thread, which every one of its steps changes
thread_pc == <<pc, mesh_pc>>

\* the thread is scheduled as long as it has a statement to execute; the window
\* system is under no obligation
SpecLive == Init /\ [][Next]_vars /\ WF_thread_pc(ThreadStep)

(* ---------- Mesh::Mesh called with any arguments ---------- *)

\* a caller that has a device is about to construct a Mesh from arguments of
\* its choice
InitMesh ==
    /\ pc = "init_cube"
    /\ s_did_resize = FALSE
    /\ queue = <<>>
    /\ quit_posted = FALSE
    /\ msg = "WM_NULL"
    /\ surf_gen = 0
    /\ framebuffer = EmptyFramebuffer
    /\ ctx = ClearedCtx
    /\ mapped = {}
    /\ cbuf = [cb_scene |-> ScenePoison, cb_object |-> ObjectPoison]
    /\ constants = NoBuffer
    /\ scene = InitScene
    /\ window_wh = <<0, 0>>
    /\ calls = <<>>
    /\ draws = <<>>
    /\ raised = 0
    /\ size_events = 0
    /\ edits = 0
    /\ rect = <<0, 0>>
    /\ failed_call = "none"
    /\ cout = <<>>
    /\ mesh_pc = "entry"
    /\ mesh_args \in [vertex_count : VertexCounts, vertex_size : VertexSizes,
                      index_count : IndexCounts, index_size : IndexSizes]
    /\ mesh = NoMesh
    /\ created = <<>>

NextMesh ==
    \/ MeshChecks
    \/ MeshIndexFormat
    \/ MeshCreateVertices
    \/ MeshCreateIndices

SpecMesh == InitMesh /\ [][NextMesh]_vars

(* ---------- properties ---------- *)

\* positions at which the next call is a clear, a draw, the UI render or Present
TargetUsePcs == {"clear_rtv", "sphere_draw", "light_draw", "imgui_end", "present"}

\* positions between the resize check and the end of the frame
FrameWorkPcs ==
    {"fetch_size", "clear_rtv", "prepare_pipeline",
     "scene_map", "scene_write", "scene_unmap",
     "sphere_map", "sphere_write", "sphere_unmap", "sphere_draw",
     "light_map", "light_write", "light_unmap", "light_draw",
     "imgui_begin", "imgui_end", "present"}

\* positions at which the next call is a GPU command that reads the constant buffers
GpuReadPcs == {"sphere_draw", "light_draw", "imgui_end", "present"}

\* C1: whatever resize signals interleave with the loop, the Framebuffer holds a
\* back buffer and a render-target view at every ClearRenderTargetView,
\* DrawIndexed, UI render and Present, and every draw went to a non-null view.
C1_BoundAtEveryUse ==
    /\ pc \in TargetUsePcs =>
          framebuffer.back_buffer # NULL /\ framebuffer.rtv # NULL
    /\ \A i \in 1..Len(draws) : draws[i].rtv # NULL

\* a draw is about to be issued after two resizes, with another message pending
C1_Witness ==
    /\ pc = "light_draw"
    /\ surf_gen >= 3
    /\ queue # <<>>
    /\ framebuffer.rtv # NULL

\* C2: in a resize handshake the discard comes right before ResizeBuffers and
\* the build right after its successful return; ResizeBuffers is never called
\* while the Framebuffer holds a back buffer or a view.
C2_DiscardResizeBuildOrder ==
    /\ pc = "rs_resize_buffers" => framebuffer = EmptyFramebuffer
    /\ pc = "rs_build" =>
          /\ framebuffer = EmptyFramebuffer
          /\ calls # <<>> /\ calls[Len(calls)] = "ResizeBuffers"
    /\ \A i \in 1..Len(calls) :
          /\ calls[i] = "ResizeBuffers" => i > 1 /\ calls[i - 1] = "Discard"
          /\ calls[i] = "Discard" /\ i < Len(calls) => calls[i + 1] = "ResizeBuffers"
          /\ calls[i] = "Build" /\ i > 1 => calls[i - 1] = "ResizeBuffers"

\* a handshake has run to its end: discard, resize, build
C2_Witness ==
    /\ pc = "rs_clear_flag"
    /\ Len(calls) = 4
    /\ calls[2] = "Discard" /\ calls[3] = "ResizeBuffers" /\ calls[4] = "Build"
    /\ framebuffer.rtv = surf_gen

\* C3: when ResizeBuffers is called the context has no binding at all: the last
\* state-changing call on it was ClearState, later than every OMSetRenderTargets.
C3_NoBindingAtResize ==
    pc = "rs_resize_buffers" =>
        /\ ctx = ClearedCtx
        /\ LastIndex(calls, "ClearState") > LastIndex(calls, "OMSetRenderTargets")
        /\ \A i \in 1..Len(calls) :
              i > LastIndex(calls, "ClearState") => calls[i] = "Discard"

\* ResizeBuffers is about to be called after a frame whose EndFrame bound the view
C3_Witness ==
    /\ pc = "rs_resize_buffers"
    /\ cbuf["cb_scene"] # ScenePoison
    /\ surf_gen >= 2
    /\ ctx.rtv = NULL

\* C4: the view cleared, bound, drawn into and rendered into by the UI is
\* always one built from the swap chain's buffers after the latest
\* ResizeBuffers.
C4_TargetIsCurrentGeneration ==
    /\ pc \in TargetUsePcs \cup {"prepare_pipeline"} =>
          framebuffer.back_buffer = surf_gen /\ framebuffer.rtv = surf_gen
    /\ pc \in {"sphere_draw", "light_draw"} => ctx.rtv = surf_gen
    /\ \A i \in 1..Len(draws) : draws[i].rtv = surf_gen

\* a draw into the view built after the second resize
C4_Witness ==
    /\ pc = "imgui_begin"
    /\ surf_gen = 3
    /\ Len(draws) = 2
    /\ draws[2].rtv = 3

\* C5: a frame that follows one or more resize signals has done exactly one
\* Discard, one ResizeBuffers and one Build, all before its first draw, and
\* draws into the view of the resized buffers.
C5_OneRebuildPerFrame ==
    pc \in FrameWorkPcs /\ raised > 0 =>
        /\ CountCalls(calls, "Discard") = 1
        /\ CountCalls(calls, "ResizeBuffers") = 1
        /\ CountCalls(calls, "Build") = 1
        /\ FirstIndex(calls, "Discard") < FirstIndex(calls, "ResizeBuffers")
        /\ FirstIndex(calls, "ResizeBuffers") < FirstIndex(calls, "Build")
        /\ FirstIndex(calls, "DrawIndexed") # 0 =>
              FirstIndex(calls, "Build") < FirstIndex(calls, "DrawIndexed")
        /\ FirstIndex(calls, "ClearRenderTargetView") # 0 =>
              FirstIndex(calls, "Build") < FirstIndex(calls, "ClearRenderTargetView")
        /\ framebuffer.back_buffer = surf_gen
        /\ \A i \in 1..Len(draws) : draws[i].rtv = surf_gen

\* two signals were raised before this frame and it rebuilt once
C5_Witness ==
    /\ pc = "present"
    /\ raised >= 2
    /\ CountCalls(calls, "Build") = 1
    /\ CountCalls(calls, "DrawIndexed") = 2

\* what Win32WindowProc does to the signal: only WM_SIZE sets it
SetByCallback ==
    \/ pc = "dispatch" /\ msg = "WM_SIZE"
    \/ pc = "init_window"

\* what the loop does to the signal: it clears it with the rebuild complete
ClearedAfterRebuild ==
    /\ pc = "rs_clear_flag"
    /\ calls = <<"ClearState", "Discard", "ResizeBuffers", "Build">>
    /\ framebuffer = [back_buffer |-> surf_gen, rtv |-> surf_gen]

\* the handshake was entered in this iteration and did not reach its end
RebuildFailed ==
    /\ pc = "crashed"
    /\ calls # <<>> /\ calls[1] = "ClearState"
    /\ "ClearRenderTargetView" \notin {calls[i] : i \in 1..Len(calls)}
    /\ framebuffer = EmptyFramebuffer

\* C6: s_did_resize becomes true only in the window procedure on WM_SIZE and
\* becomes false only in the loop, after ClearState, discard, ResizeBuffers and
\* the rebuild; when a step of the rebuild fails it is still set.
C6_SignalSetAndCleared ==
    /\ [][(~s_did_resize /\ s_did_resize') => SetByCallback]_vars
    /\ [][(s_did_resize /\ ~s_did_resize') => ClearedAfterRebuild]_vars
    /\ [](RebuildFailed => s_did_resize)

\* the signal has just been cleared after a complete rebuild
C6_Witness ==
    /\ pc = "fetch_size"
    /\ ~s_did_resize
    /\ calls = <<"ClearState", "Discard", "ResizeBuffers", "Build">>

\* the rebuild failed with the signal set
C6_WitnessFailure ==
    /\ RebuildFailed
    /\ s_did_resize

\* C7: the resize check is reached only from an event poll that found nothing,
\* frame work only through the resize check, and the signal is clear all the
\* way from the end of the resize check to Present.
C7_SignalClearDuringFrame ==
    /\ [](pc \in FrameWorkPcs => ~s_did_resize)
    /\ [][pc' # pc /\ pc' = "resize_check" =>
              pc = "peek" /\ queue = <<>> /\ ~quit_posted]_vars
    /\ [][pc' # pc /\ pc' = "fetch_size" =>
              pc \in {"resize_check", "rs_clear_flag"}]_vars
    /\ [][pc' \in FrameWorkPcs \ {"fetch_size"} => pc \in FrameWorkPcs]_vars

\* a frame is being drawn after a signal was raised and handled, with the next
\* WM_SIZE already pending
C7_Witness ==
    /\ pc = "sphere_draw"
    /\ raised > 0
    /\ ~s_did_resize
    /\ queue = <<"WM_SIZE">>

\* C8: no buffer is mapped when DrawIndexed, the UI render or Present is
\* issued, every Map is followed by its Unmap two calls later, and at most one
\* buffer is mapped at a time.
C8_NothingMappedAtGpuRead ==
    /\ pc \in GpuReadPcs => mapped = {}
    /\ Cardinality(mapped) <= 1
    /\ \A i \in 1..Len(draws) : draws[i].mapped = {}
    /\ \A i \in 1..Len(calls) :
          i + 2 <= Len(calls) =>
             /\ calls[i] = "Map:cb_scene" => calls[i + 2] = "Unmap:cb_scene"
             /\ calls[i] = "Map:cb_object" => calls[i + 2] = "Unmap:cb_object"

\* the light is about to be drawn after both object uploads
C8_Witness ==
    /\ pc = "light_draw"
    /\ CountCalls(calls, "Map:cb_object") = 2
    /\ CountCalls(calls, "Unmap:cb_object") = 2
    /\ mapped = {}

\* the Map, and the Unmap, of the buffer a logged store went to; the store
\* a logged Unmap ends
MapOf == [x \in {"Write:cb_scene", "Write:cb_object"} |->
             IF x = "Write:cb_scene" THEN "Map:cb_scene" ELSE "Map:cb_object"]
UnmapOf == [x \in {"Write:cb_scene", "Write:cb_object"} |->
             IF x = "Write:cb_scene" THEN "Unmap:cb_scene" ELSE "Unmap:cb_object"]
WriteOf == [x \in {"Unmap:cb_scene", "Unmap:cb_object"} |->
             IF x = "Unmap:cb_scene" THEN "Write:cb_scene" ELSE "Write:cb_object"]

\* C9: a store to a constant buffer has the buffer's Map right before it and
\* its Unmap right after it, one store per Map/Unmap pair, and the pointer
\* from Data() exists only while its buffer is mapped.
C9_WriteInsideMapScope ==
    /\ constants # NoBuffer => constants \in mapped
    /\ mapped # {} => constants \in mapped
    /\ \A i \in 1..Len(calls) :
          /\ calls[i] \in DOMAIN MapOf =>
                /\ i > 1 /\ calls[i - 1] = MapOf[calls[i]]
                /\ i < Len(calls) => calls[i + 1] = UnmapOf[calls[i]]
          /\ calls[i] \in DOMAIN WriteOf =>
                i > 2 /\ calls[i - 1] = WriteOf[calls[i]] /\ calls[i - 2] = MapOf[WriteOf[calls[i]]]

\* the scene buffer has been written inside its scope and the scope has ended
C9_Witness ==
    /\ pc = "sphere_map"
    /\ cbuf["cb_scene"].world_eye = scene.camera_position
    /\ constants = NoBuffer
    /\ mapped = {}
    /\ calls[Len(calls)] = "Unmap:cb_scene"

\* the object constants of a drawable with the given position and color
ExpectedObject(position, color) ==
    [model |-> <<"model", position>>, color |-> color, position |-> position, radius |-> "0.5"]

\* the scene constants of the frame being drawn
ExpectedScene ==
    [view |-> <<"view", scene.camera_position, scene.camera_target>>,
     projection |-> <<"projection", window_wh[1], window_wh[2]>>,
     world_eye |-> scene.camera_position]

\* C10: the first DrawIndexed of a frame reads the sphere's constants, the
\* second the light's, both read the scene constants of this frame, none
\* reads an unwritten field.
C10_DrawReadsLatestWrite ==
    pc \in {"light_map", "light_write", "light_unmap", "light_draw", "imgui_begin"} =>
        /\ Len(draws) >= 1
        /\ draws[1].kind = "DrawIndexed"
        /\ draws[1].object = ExpectedObject(scene.sphere_position, scene.sphere_color)
        /\ draws[1].scene = ExpectedScene
        /\ pc = "imgui_begin" =>
              /\ Len(draws) = 2
              /\ draws[2].kind = "DrawIndexed"
              /\ draws[2].object = ExpectedObject(scene.light_position, scene.light_color)
              /\ draws[2].scene = ExpectedScene

\* both draws of a frame that follows an edit of the light's color and a
\* frame of another window size
C10_Witness ==
    /\ pc = "imgui_begin"
    /\ Len(draws) = 2
    /\ scene.light_color = "green"
    /\ draws[2].object.color = "green"
    /\ draws[1].object.color = "red"

(* ---------- Mesh construction ---------- *)

\* the arguments the Mesh invariant allows: counts above zero, an index width of 2 or 4
ValidArgs(a) ==
    /\ a.vertex_count # UINT(0)
    /\ a.index_count # UINT(0)
    /\ a.index_size \in {UINT(2), UINT(4)}

\* the messages of the constructor's assertions
AssertionSites ==
    {"vertex_count > 0", "index_count > 0", "vertex_size > 0",
     "index_size > 0 && (index_size == 2 || index_size == 4)", "unreachable code path"}

\* C11 as stated: whenever both counts are above zero and the index width is 2
\* or 4, the construction of the Mesh succeeds.
C11_ValidArgsNeverThrow ==
    ValidArgs(mesh_args) => mesh_pc # "thrown"

\* C11: whenever both counts and the vertex size are above zero and the index
\* width is 2 or 4, no assertion of the constructor fails: it can only fail in
\* CreateBuffer, and when it returns, VertexCount() and IndexCount() are the
\* counts passed and IndexFormat() is R16_UINT for width 2, R32_UINT for width 4.
C11_ValidMeshConstructed ==
    (ValidArgs(mesh_args) /\ mesh_args.vertex_size # UINT(0)) =>
        /\ mesh_pc = "thrown" => failed_call = "CreateBuffer"
        /\ mesh_pc = "constructed" =>
              /\ VertexCount(mesh) = mesh_args.vertex_count
              /\ IndexCount(mesh) = mesh_args.index_count
              /\ mesh_args.index_size = UINT(2) => IndexFormat(mesh) = "DXGI_FORMAT_R16_UINT"
              /\ mesh_args.index_size = UINT(4) => IndexFormat(mesh) = "DXGI_FORMAT_R32_UINT"
        /\ mesh_pc \notin {"constructed", "thrown", "entry"} => mesh # NoMesh

C11_Witness ==
    /\ mesh_pc = "constructed"
    /\ mesh_args.index_size = UINT(2)
    /\ mesh_args.vertex_count = UINT(1)
    /\ IndexFormat(mesh) = "DXGI_FORMAT_R16_UINT"

\* C12: a construction with a vertex count of zero, an index count of zero or an
\* index width other than 2 and 4 never gets past the assertions: it fails with
\* an assertion failure, no Mesh exists and CreateBuffer has not been called.
C12_InvalidMeshFailsBeforeCreate ==
    ~ValidArgs(mesh_args) =>
        /\ mesh_pc \in {"entry", "thrown"}
        /\ created = <<>>
        /\ mesh = NoMesh
        /\ mesh_pc = "thrown" => failed_call \in AssertionSites /\ pc = "crashed"

C12_Witness ==
    /\ mesh_pc = "thrown"
    /\ mesh_args.index_size = UINT(3)
    /\ mesh_args.vertex_count # UINT(0)
    /\ mesh_args.index_count # UINT(0)
    /\ mesh_args.vertex_size # UINT(0)
    /\ created = <<>>

(* ---------- window size ---------- *)

\* positions of an iteration after GetClientRect has reported the client rectangle
SizedPcs == FrameWorkPcs \ {"fetch_size"}

\* positions of an iteration after the viewport has been set
ViewportPcs == SizedPcs \ {"clear_rtv", "prepare_pipeline"}

\* positions of an iteration after the scene constants have been written
ProjectedPcs == ViewportPcs \ {"scene_map", "scene_write", "scene_unmap"}

\* C13: whatever client rectangle is reported, the width and height the
\* iteration uses are max(right, 8) and max(bottom, 8): both are at least 8,
\* the viewport has exactly that size, and the projection written to the scene
\* buffer is computed from that width and that (non-zero) height.
C13_ClampedWindowSize ==
    LET w == IF rect[1] < 8 THEN 8 ELSE rect[1]
        h == IF rect[2] < 8 THEN 8 ELSE rect[2]
    IN /\ pc \in SizedPcs => window_wh = <<w, h>> /\ w >= 8 /\ h >= 8
       /\ pc \in ViewportPcs => ctx.viewport = <<w, h>>
       /\ pc \in ProjectedPcs =>
             /\ cbuf.cb_scene.projection = <<"projection", w, h>>
             /\ cbuf.cb_scene.projection[3] > 0

C13_Witness ==
    /\ pc = "present"
    /\ rect = <<0, 0>>
    /\ ctx.viewport = <<8, 8>>
    /\ cbuf.cb_scene.projection = <<"projection", 8, 8>>

(* ---------- failures ---------- *)

\* what the GPU and the swap chain have been asked to do and hold
GpuWork == <<calls, draws, surf_gen, framebuffer, ctx, cbuf, mapped>>

\* C14: a failed Present is fatal and is not retried: once Present has failed
\* the thread is outside the loop, Present is the last call ever issued (no
\* draw, rebuild or Present follows), and the only step left is the handler of
\* main(), which prints the diagnostic before the process ends.
C14_PresentFailureIsFatal ==
    /\ [](failed_call = "Present" =>
            /\ pc \in {"crashed", "exited"}
            /\ calls[Len(calls)] = "Present"
            /\ CountCalls(calls, "Present") = 1
            /\ pc = "exited" <=> cout = <<"Present">>)
    /\ [][failed_call = "Present" =>
            /\ pc = "crashed" /\ pc' = "exited"
            /\ cout' = <<"Present">>
            /\ UNCHANGED GpuWork]_vars

C14_Witness ==
    /\ failed_call = "Present"
    /\ pc = "exited"
    /\ cout = <<"Present">>
    /\ calls[Len(calls)] = "Present"

\* the checks of Entry() before the loop, as failed_call names them
InitFailures ==
    ({InitOrder[k] : k \in 1..(Len(InitOrder) - 1)} \ Unchecked)
        \cup {"D3D11CreateDevice", "required_lvl == supported_lvl", "CreateBuffer"}
        \cup AssertionSites

\* C15: when a step of the initialisation fails, the thread leaves Entry(): the
\* loop is never entered (no draw, map or Present is ever issued, nothing is
\* written to a constant buffer), no later initialisation step runs (what the
\* later steps create does not come to exist), nothing is retried, and the only
\* step left is the handler of main() printing the diagnostic.
C15_InitFailureIsFatal ==
    /\ [](failed_call \in InitFailures =>
            /\ pc \in {"crashed", "exited"}
            /\ draws = <<>> /\ mapped = {} /\ ctx = ClearedCtx
            /\ calls \in {<<>>, <<"Build">>}
            /\ cbuf = [cb_scene |-> ScenePoison, cb_object |-> ObjectPoison]
            /\ failed_call \in {"init_dpi", "init_class", "init_window", "D3D11CreateDevice",
                                "required_lvl == supported_lvl", "init_swap_chain"}
                   => surf_gen = 0 /\ framebuffer = EmptyFramebuffer /\ calls = <<>>
            /\ failed_call = "init_swap_chain" => surf_gen = 0
            /\ failed_call = "init_framebuffer" => framebuffer = EmptyFramebuffer /\ calls = <<>>
            /\ failed_call # "CreateBuffer" => mesh_pc = "not_called"
            /\ mesh_pc # "constructed"
            /\ pc = "exited" <=> cout = <<failed_call>>)
    /\ [][(failed_call \in InitFailures) =>
            /\ pc = "crashed" /\ pc' = "exited"
            /\ cout' = <<failed_call>>
            /\ UNCHANGED (<<GpuWork, mesh_vars, s_did_resize>>)]_vars

C15_Witness ==
    /\ failed_call = "required_lvl == supported_lvl"
    /\ pc = "exited"
    /\ cout = <<"required_lvl == supported_lvl">>
    /\ surf_gen = 0

(* ---------- quitting ---------- *)

\* C16: once PeekMessageA has retrieved WM_QUIT the loop ends at its next
\* test: the thread only dispatches the message, tests the condition and
\* leaves; no frame is rendered, no resize rebuild happens and nothing is
\* presented after it, whether or not the resize signal is set, and the signal
\* itself is left as it is.
C16_QuitEndsLoop ==
    /\ [](msg = "WM_QUIT" =>
            /\ pc \in {"dispatch", "loop_test", "exited"}
            /\ calls = <<>> /\ draws = <<>>
            /\ failed_call = "none" /\ cout = <<>>)
    /\ [][msg = "WM_QUIT" =>
            /\ pc' \in {"dispatch", "loop_test", "exited"}
            /\ pc = "loop_test" => pc' \in {"loop_test", "exited"}
            /\ UNCHANGED GpuWork
            /\ UNCHANGED s_did_resize]_vars

C16_Witness ==
    /\ msg = "WM_QUIT"
    /\ pc = "exited"
    /\ s_did_resize
    /\ raised > 0

(* ---------- SubresourceMap scopes ---------- *)

\* the positions inside the scope of the SubresourceMap of each buffer
ScopePcs ==
    [cb_scene |-> {"scene_write", "scene_unmap"},
     cb_object |-> {"sphere_write", "sphere_unmap", "light_write", "light_unmap"}]

\* C17: a buffer is mapped exactly while the thread is inside the scope of its
\* SubresourceMap: the successful Map at the scope's entry is matched by one
\* Unmap of the same buffer at its end (one pair for the scene buffer and two
\* for the object buffer in a frame), and nothing stays mapped when the thread
\* has left the loop, by an error or not; when Map fails, no Unmap follows, the
\* buffer is not mapped and the failure leaves Entry().
C17_MapMatchedByUnmap ==
    /\ [](/\ ("cb_scene" \in mapped <=> pc \in ScopePcs.cb_scene)
          /\ ("cb_object" \in mapped <=> pc \in ScopePcs.cb_object)
          /\ pc = "present" =>
                /\ CountCalls(calls, "Map:cb_scene") = 1
                /\ CountCalls(calls, "Unmap:cb_scene") = 1
                /\ CountCalls(calls, "Map:cb_object") = 2
                /\ CountCalls(calls, "Unmap:cb_object") = 2
          /\ failed_call = "Map" =>
                /\ pc \in {"crashed", "exited"}
                /\ constants = NoBuffer
                /\ CountCalls(calls, "Map:cb_scene") = CountCalls(calls, "Unmap:cb_scene")
                /\ CountCalls(calls, "Map:cb_object") = CountCalls(calls, "Unmap:cb_object"))
    /\ [][/\ "cb_scene" \in mapped /\ "cb_scene" \notin mapped' =>
                calls' = Append(calls, "Unmap:cb_scene")
          /\ "cb_object" \in mapped /\ "cb_object" \notin mapped' =>
                calls' = Append(calls, "Unmap:cb_object")
          /\ failed_call' = "Map" =>
                UNCHANGED <<calls, mapped, cbuf>> /\ pc' \in {"crashed", "exited"}]_vars

\* the scene buffer's scope has ended with its Unmap and the Map of the
\* object buffer has then failed
C17_Witness ==
    /\ failed_call = "Map"
    /\ pc = "exited"
    /\ calls[Len(calls)] = "Unmap:cb_scene"
    /\ mapped = {}

(* ---------- order of a frame ---------- *)

\* the calls of one rendered frame, in order
FrameCalls ==
    <<"ClearRenderTargetView",
      "ClearState", "IASetPrimitiveTopology", "IASetInputLayout", "VSSetShader",
      "VSSetConstantBuffers", "PSSetShader", "PSSetConstantBuffers", "RSSetState",
      "RSSetViewports", "OMSetRenderTargets",
      "Map:cb_scene", "Write:cb_scene", "Unmap:cb_scene",
      "Map:cb_object", "Write:cb_object", "Unmap:cb_object",
      "IASetIndexBuffer", "IASetVertexBuffers", "DrawIndexed",
      "Map:cb_object", "Write:cb_object", "Unmap:cb_object",
      "IASetIndexBuffer", "IASetVertexBuffers", "DrawIndexed",
      "BeginFrame", "OMSetRenderTargets", "RenderDrawData",
      "Present">>

\* the number of calls of the frame that have been issued at each position
Issued ==
    [p \in FrameWorkPcs |->
        CASE p \in {"fetch_size", "clear_rtv"} -> 0
          [] p = "prepare_pipeline" -> 1
          [] p = "scene_map" -> 11
          [] p = "scene_write" -> 12
          [] p = "scene_unmap" -> 13
          [] p = "sphere_map" -> 14
          [] p = "sphere_write" -> 15
          [] p = "sphere_unmap" -> 16
          [] p = "sphere_draw" -> 17
          [] p = "light_map" -> 20
          [] p = "light_write" -> 21
          [] p = "light_unmap" -> 22
          [] p = "light_draw" -> 23
          [] p = "imgui_begin" -> 26
          [] p = "imgui_end" -> 27
          [] p = "present" -> 29]

\* the last k entries of the call log are the first k calls of a frame and at
\* most the four calls of a resize rebuild precede them
FrameSoFar(k) ==
    LET n == Len(calls)
    IN /\ n \in {k, k + 4}
       /\ \A i \in 1..k : calls[n - k + i] = FrameCalls[i]

\* C18: the calls of a rendered frame come in one order: the clear of the back
\* buffer, the pipeline binding, one scoped write of the scene buffer, then for
\* the sphere and for the light one scoped write of the object buffer followed
\* by one DrawIndexed, then the UI's BeginFrame and EndFrame, and one Present,
\* which is the last call of the iteration.
C18_FrameOrder ==
    /\ pc \in FrameWorkPcs => FrameSoFar(Issued[pc])
    /\ (pc = "loop_test" /\ calls # <<>> /\ calls # <<"Build">>) => FrameSoFar(Len(FrameCalls))
    /\ failed_call = "Present" => FrameSoFar(Len(FrameCalls))
    /\ pc \in {"present", "imgui_end"} =>
          /\ Len(draws) >= 2
          /\ draws[1].kind = "DrawIndexed" /\ draws[2].kind = "DrawIndexed"
          /\ \A i \in 3..Len(draws) : draws[i].kind = "RenderDrawData"

\* a frame that began with a resize rebuild has been presented
C18_Witness ==
    /\ pc = "loop_test"
    /\ Len(calls) = Len(FrameCalls) + 4
    /\ calls[Len(calls)] = "Present"
    /\ calls[2] = "Discard"
    /\ Len(draws) = 3

(* ---------- bindings at a draw ---------- *)

\* the calls that bind the pipeline, in the order of the block
BindCalls ==
    <<"IASetPrimitiveTopology", "IASetInputLayout", "VSSetShader", "VSSetConstantBuffers",
      "PSSetShader", "PSSetConstantBuffers", "RSSetState", "RSSetViewports",
      "OMSetRenderTargets">>

\* C19: a rendered frame clears all bindings with ClearState and then sets each
\* of them once before its first draw, so that at every DrawIndexed the
\* topology, the input layout, both shaders, both constant-buffer slots, the
\* rasterizer state, the viewport (of the clamped size) and the render target
\* have been set after the most recent ClearState, that of a resize rebuild
\* included, and the render target is the view of the current Framebuffer.
C19_BoundAfterLastClearState ==
    /\ \A i \in 1..Len(draws) :
          draws[i].kind = "DrawIndexed" =>
             /\ {"topology", "input_layout", "vs", "vs_cbufs", "ps", "ps_cbufs", "rs"}
                    \subseteq draws[i].slots
             /\ draws[i].viewport = window_wh
             /\ draws[i].viewport[1] >= 8 /\ draws[i].viewport[2] >= 8
             /\ draws[i].rtv = framebuffer.rtv
             /\ draws[i].rtv = surf_gen /\ draws[i].rtv # NULL
    /\ pc \in {"sphere_draw", "light_draw"} =>
          LET c == LastIndex(calls, "ClearState")
          IN /\ c > 0
             /\ Len(calls) >= c + Len(BindCalls)
             /\ \A k \in 1..Len(BindCalls) : calls[c + k] = BindCalls[k]
             /\ \A k \in (c + Len(BindCalls) + 1)..Len(calls) :
                   calls[k] \notin {BindCalls[j] : j \in 1..Len(BindCalls)}
             /\ CountCalls(calls, "Discard") = 1 => c > FirstIndex(calls, "Discard")
             /\ ctx.rtv = framebuffer.rtv
             /\ ctx.viewport = window_wh
             /\ PipelineSlots \subseteq ctx.slots

\* the light is about to be drawn in a frame whose target was rebuilt
C19_Witness ==
    /\ pc = "light_draw"
    /\ Len(draws) = 1
    /\ calls[1] = "ClearState" /\ calls[2] = "Discard"
    /\ LastIndex(calls, "ClearState") = 6
    /\ draws[1].rtv = 2

(* ---------- frame-target operations ---------- *)

\* positions inside the resize handshake
ResizePcs == {"rs_clear_state", "rs_discard", "rs_resize_buffers", "rs_build", "rs_clear_flag"}

\* C20: the Framebuffer is discarded only in response to a resize signal.  An
\* iteration that finds the signal clear goes straight to the frame and, until
\* it ends, the Framebuffer and the swap chain's buffers stay as they are and no
\* Discard, ResizeBuffers or Build is issued.  The Framebuffer changes only by
\* the initial Build, by a Discard of a bound Framebuffer under a set signal,
\* and by a Build that directly follows the ResizeBuffers that directly follows
\* that Discard: the operations form Build (Discard ResizeBuffers Build)*.
C20_DiscardOnlyOnResizeSignal ==
    /\ [](pc \in ResizePcs => s_did_resize)
    /\ [][(pc = "resize_check" /\ ~s_did_resize /\ pc' # pc) =>
              pc' = "fetch_size" /\ UNCHANGED <<framebuffer, surf_gen, calls>>]_vars
    /\ [][(pc \in FrameWorkPcs) =>
              /\ UNCHANGED <<framebuffer, surf_gen>>
              /\ Len(calls') > Len(calls) =>
                    \A i \in (Len(calls) + 1)..Len(calls') :
                        calls'[i] \notin {"Discard", "ResizeBuffers", "Build"}]_vars
    /\ [][framebuffer' # framebuffer =>
              \/ /\ pc = "init_framebuffer"
                 /\ framebuffer = EmptyFramebuffer /\ framebuffer'.rtv = surf_gen
                 /\ calls' = Append(calls, "Build")
              \/ /\ pc = "rs_discard" /\ s_did_resize
                 /\ framebuffer # EmptyFramebuffer /\ framebuffer' = EmptyFramebuffer
                 /\ calls' = Append(calls, "Discard")
              \/ /\ pc = "rs_build" /\ s_did_resize
                 /\ framebuffer = EmptyFramebuffer /\ framebuffer'.rtv = surf_gen
                 /\ calls[Len(calls)] = "ResizeBuffers"
                 /\ calls' = Append(calls, "Build")]_vars
    /\ [][surf_gen' # surf_gen =>
              \/ pc = "init_swap_chain"
              \/ /\ pc = "rs_resize_buffers" /\ s_did_resize
                 /\ framebuffer = EmptyFramebuffer
                 /\ calls[Len(calls)] = "Discard"
                 /\ surf_gen' = surf_gen + 1]_vars

\* an iteration without a resize signal is about to present, after an earlier
\* iteration has rebuilt the Framebuffer
C20_Witness ==
    /\ pc = "present"
    /\ Len(calls) = Issued["present"]
    /\ surf_gen = 2
    /\ framebuffer.rtv = 2
    /\ ~s_did_resize

(* ---------- events before frames ---------- *)

\* C21: pending events come before frame work.  The poll of an iteration takes
\* the first pending event (or WM_QUIT) if there is one and only otherwise goes
\* on to the resize check and the frame; an iteration that has retrieved an
\* event dispatches that event alone (the queue is not read again, the window
\* procedure acts on the retrieved message) and returns to the loop test
\* without any call to the GPU.
C21_EventsBeforeFrame ==
    /\ [](pc = "dispatch" => calls = <<>> /\ draws = <<>>)
    /\ [][(pc = "peek" /\ pc' # pc) =>
              /\ UNCHANGED GpuWork
              /\ IF queue # <<>>
                 THEN pc' = "dispatch" /\ msg' = Head(queue) /\ queue' = Tail(queue)
                 ELSE IF quit_posted
                 THEN pc' = "dispatch" /\ msg' = "WM_QUIT"
                 ELSE pc' = "resize_check" /\ msg' = msg]_vars
    /\ [][(pc = "dispatch" /\ pc' # pc) =>
              /\ pc' = "loop_test"
              /\ UNCHANGED <<GpuWork, queue, msg>>
              /\ calls' = <<>>
              /\ s_did_resize' # s_did_resize => msg = "WM_SIZE"
              /\ quit_posted' # quit_posted => msg = "WM_DESTROY"]_vars
    /\ [][(pc' \in {"resize_check"} /\ pc' # pc) =>
              pc = "peek" /\ queue = <<>> /\ ~quit_posted]_vars

\* an iteration has retrieved and dispatched WM_SIZE while another event was
\* already pending, and has rendered nothing
C21_Witness ==
    /\ pc = "loop_test"
    /\ msg = "WM_SIZE"
    /\ s_did_resize
    /\ calls = <<>>
    /\ queue # <<>>

(* ---------- the resize signal is served ---------- *)

\* the raised signal has been served, the loop has ended on WM_QUIT, or a
\* check has failed
SignalSettled ==
    \/ ~s_did_resize
    \/ pc = "exited" /\ msg = "WM_QUIT"
    \/ failed_call # "none"

\* C22 as stated: with the thread's steps fair and no check failing, a raised
\* resize signal is eventually cleared by the rebuild, unless the loop ends on
\* WM_QUIT.
C22_SignalEventuallyServed ==
    s_did_resize ~> SignalSettled

\* C22: with the thread's steps fair, no check failing and the window system
\* posting no events from some point on, a raised resize signal is eventually
\* cleared by the rebuild, unless the loop ends on WM_QUIT.
C22_SignalServedOnceEventsStop ==
    (<>[](queue = <<>>)) => (s_did_resize ~> SignalSettled)

\* the signal raised by a dispatched WM_SIZE has been cleared after the rebuild
C22_Witness ==
    /\ pc = "fetch_size"
    /\ ~s_did_resize
    /\ msg = "WM_SIZE"
    /\ surf_gen = 2
    /\ failed_call = "none"

(* ---------- every field is rewritten ---------- *)

\* the field f of the buffer contents c holds what a discarding Map left there
Stale(c, f) == IF f \in MatrixFields THEN c[f] = GarbageMatrix ELSE c[f] = Garbage

\* positions at which the scope of the latest write of each buffer has closed
SceneWrittenPcs == ProjectedPcs
ObjectWrittenPcs == {"sphere_draw", "light_draw", "imgui_begin", "imgui_end", "present"}

\* C23: when the scope of a scoped write closes, every field of the buffer's
\* layout (scene: view, projection, world_eye; object: model, color, position,
\* radius) has been stored since the discarding Map, so every DrawIndexed reads
\* constant buffers none of whose fields holds discarded contents.
C23_EveryFieldRewritten ==
    /\ pc \in SceneWrittenPcs => \A f \in SceneConstants : ~Stale(cbuf.cb_scene, f)
    /\ pc \in ObjectWrittenPcs => \A f \in ObjectConstants : ~Stale(cbuf.cb_object, f)
    /\ \A i \in 1..Len(draws) :
          draws[i].kind = "DrawIndexed" =>
             /\ \A f \in SceneConstants : ~Stale(draws[i].scene, f)
             /\ \A f \in ObjectConstants : ~Stale(draws[i].object, f)
    /\ pc = "scene_write" => \A f \in SceneConstants : Stale(cbuf.cb_scene, f)
    /\ pc \in {"sphere_write", "light_write"} =>
          \A f \in ObjectConstants : Stale(cbuf.cb_object, f)

\* the sphere is about to be drawn from an object buffer that held the light's
\* constants of the frame before, was discarded and has been rewritten
C23_Witness ==
    /\ pc = "sphere_draw"
    /\ surf_gen = 2
    /\ calls[1] = "ClearRenderTargetView"
    /\ cbuf.cb_object.radius = "0.5"
    /\ cbuf.cb_object.position = scene.sphere_position
    /\ cbuf.cb_scene.world_eye = scene.camera_position

(* ---------- byte widths ---------- *)

\* a * b of two UINT operands as an unbounded integer, written as its eight
\* bytes, least significant first
Product(a, b) ==
    LET c0 == a[1] * b[1]
        c1 == a[1] * b[2] + a[2] * b[1] + (c0 \div Radix)
        c2 == a[1] * b[3] + a[2] * b[2] + a[3] * b[1] + (c1 \div Radix)
        c3 == a[1] * b[4] + a[2] * b[3] + a[3] * b[2] + a[4] * b[1] + (c2 \div Radix)
        c4 == a[2] * b[4] + a[3] * b[3] + a[4] * b[2] + (c3 \div Radix)
        c5 == a[3] * b[4] + a[4] * b[3] + (c4 \div Radix)
        c6 == a[4] * b[4] + (c5 \div Radix)
        c7 == c6 \div Radix
    IN <<c0 % Radix, c1 % Radix, c2 % Radix, c3 % Radix,
         c4 % Radix, c5 % Radix, c6 % Radix, c7 % Radix>>

\* the unbounded integer a UINT stands for, as eight bytes
Widen(a) == a \o <<0, 0, 0, 0>>

\* C24: for all arguments that pass the checks of Mesh::Mesh, the ByteWidth
\* requested for the vertex buffer is vertex_count * vertex_size and the one
\* requested for the index buffer is index_count * index_size as unbounded
\* integers: the 32-bit products never wrap modulo 2^32.
C24_ByteWidthNeverWraps ==
    \A i \in 1..Len(created) :
        Widen(created[i].ByteWidth) =
            IF created[i].BindFlags = "D3D11_BIND_VERTEX_BUFFER"
            THEN Product(mesh_args.vertex_count, mesh_args.vertex_size)
            ELSE Product(mesh_args.index_count, mesh_args.index_size)

====
